---- MODULE Spec2Model ----
(***************************************************************************)
(* A model of the morsesrc element (src/src/gstmorsesrc.c): the symbol     *)
(* table and the text-to-symbol compiler, the timing computation, the      *)
(* pending-text hand-over between the property setter and the streaming    *)
(* thread, the chunk producer with its completion flags, the property      *)
(* clamps, the format negotiation, the oscillator phase and the buffer     *)
(* timestamps.                                                             *)
(***************************************************************************)
EXTENDS Integers, Sequences, FiniteSets, TLC

(***************************************************************************)
(* Symbol table and compiler                                               *)
(***************************************************************************)

\* morse_table[128]; the C literals are octal, written here in decimal.
morse_table ==
  << 0, 0, 0, 0, 0, 0, 0, 0,
     0, 0, 266, 0, 0, 266, 0, 0,
     0, 0, 0, 0, 0, 0, 0, 0,
     0, 0, 0, 0, 0, 0, 0, 0,
     0, 437, 402, 0, 0, 0, 322, 414,
     333, 0, 0, 330, 435, 0, 426, 329,
     351, 350, 348, 344, 336, 320, 321, 323,
     327, 335, 391, 405, 0, 337, 0, 396,
     0, 130, 257, 261, 193, 64, 260, 195,
     256, 128, 270, 197, 258, 131, 129, 199,
     262, 267, 194, 192, 65, 196, 264, 198,
     265, 269, 259, 0, 0, 0, 0, 0,
     0, 130, 257, 261, 193, 64, 260, 195,
     256, 128, 270, 197, 258, 131, 129, 199,
     262, 267, 194, 192, 65, 196, 264, 198,
     265, 269, 259, 0, 0, 0, 0, 0 >>

\* The three characters the generated string is made of.
Gap == " "
Dot == "."
Dash == "-"

\* Character codes used by the model.
SPACE == 32

\* toupper() in the C locale.
toupper(ch) == IF ch >= 97 /\ ch <= 122 THEN ch - 32 ELSE ch

\* morse_table[ch & 0x7f]
TableEntry(ch) == morse_table[(ch % 128) + 1]

\* nsyms = (bitreg >> 6) & 07, and 8 when that is 0
NSyms(bitreg) ==
  IF (bitreg \div 64) % 8 = 0 THEN 8 ELSE (bitreg \div 64) % 8

\* The while (nsyms-- > 0) loop of morse_send_char: one ' ' and one
\* '-' or '.' per symbol, lowest bit first, shifting bitreg right.
RECURSIVE SendSymbols(_, _, _)
SendSymbols(text, nsyms, bitreg) ==
  IF nsyms > 0
    THEN SendSymbols(text \o << Gap, (IF bitreg % 2 = 1 THEN Dash ELSE Dot) >>,
                     nsyms - 1, bitreg \div 2)
    ELSE text

\* Same loop with the symbol test inverted.
RECURSIVE SendSymbolsInverted(_, _, _)
SendSymbolsInverted(text, nsyms, bitreg) ==
  IF nsyms > 0
    THEN SendSymbolsInverted(text \o << Gap, (IF bitreg % 2 = 1 THEN Dot ELSE Dash) >>,
                             nsyms - 1, bitreg \div 2)
    ELSE text

\* morse_send_char with the table's empty entries skipped.
morse_send_char_skip(text, ch) ==
  IF ch = SPACE
    THEN text \o << Gap, Gap >>
    ELSE IF TableEntry(ch) = 0
      THEN text
      ELSE SendSymbols(text, NSyms(TableEntry(ch)), TableEntry(ch) % 64) \o << Gap >>

\* morse_send_char with dots and dashes exchanged.
morse_send_char_inverted(text, ch) ==
  IF ch = SPACE
    THEN text \o << Gap, Gap >>
    ELSE SendSymbolsInverted(text, NSyms(TableEntry(ch)), TableEntry(ch) % 64) \o << Gap >>

\* morse_send_char: appends to the string and returns it.
morse_send_char(text, ch) ==
  IF ch = SPACE
    THEN text \o << Gap, Gap >>
    ELSE SendSymbols(text, NSyms(TableEntry(ch)), TableEntry(ch) % 64) \o << Gap >>

\* morse_send_string: every character through toupper and
\* morse_send_char, then three trailing blanks.
RECURSIVE morse_send_string(_, _)
morse_send_string(text, str) ==
  IF str = << >>
    THEN text \o << Gap, Gap, Gap >>
    ELSE morse_send_string(morse_send_char(text, toupper(Head(str))), Tail(str))


(***************************************************************************)
(* Program constants and the bounds of the model                           *)
(***************************************************************************)

DEFAULT_WPM == 20
MIN_WPM == 5
MAX_WPM == 30
\* Tone frequency in Hz.
DEFAULT_FREQUENCY == 880
MIN_FREQUENCY == 400
MAX_FREQUENCY == 2000
\* Volume in hundredths: DEFAULT_VOLUME 0.5, MIN_VOLUME 0.0, MAX_VOLUME 1.0.
DEFAULT_VOLUME == 50
MIN_VOLUME == 0
MAX_VOLUME == 100
\* Nanoseconds in a second, the unit of buffer timestamps.
GST_SECOND == 1000000000
\* guint max_samples = 5292*10 in gst_morse_src_create
max_samples == 52920
\* the floor under samples_per_dot
MinDotSamples == 100

\* Longest text of the compiler's input space.
MaxTextLen == 3
\* Most idle callbacks that may be queued at once.
MaxIdleQueue == 2
\* Samples of the longest burst the generator is applied to on its own.
MaxBurst == 9

\* Characters of the compiler's input space: LF, ' ', '#', 'A', 'O', 'e'.
Alphabet == {10, 32, 35, 65, 79, 101}

\* NULL for a gchar* and for a GString*.
NULLTEXT == << -1 >>
NULLMORSE == << "NULL" >>

\* g_strdup("OK")
TextOK == << 79, 75 >>
\* Texts the application sets: "" (ignored), "A", "e#".
TextArgs == { << >>, << 65 >>, << 101, 35 >> }
\* Values the application writes to the wpm property.
WpmArgs == {1, 6}
\* Sample rates of the caps the peer may negotiate.
Rates == {1000, 44100}
\* Formats of the caps: unparsable caps and the default format.
Formats == {"invalid", "S16"}

\* Values the application writes to the frequency, volume and wpm
\* properties when only the configuration is followed: below, inside and
\* above each range.
FrequencyArgs == {100, 440, 5000}
VolumeArgs == {-100, 25, 150}
ConfigWpmArgs == {1, 12, 40}
\* Caps of the configuration runs: unparsable, canonical, convertible, and
\* a format whose unpack format is neither S32 nor F64.
ConfigFormats == {"invalid", "S16", "S24", "unmatched"}
ConfigRates == {8000}

\* Inputs of the runs that follow the cursor: the text "SOS", a rate at
\* which it fits one buffer and a rate at which it takes many.
TextSOS == << 83, 79, 83 >>
CursorRates == {8000, 384000}

\* Inputs of the runs that follow the text requests: the empty text and
\* "A", a wpm request below the range, and the rates above.
SwapTextArgs == { << >>, << 65 >> }
SwapWpmArgs == {1}
SwapRates == {8000, 384000}

VARIABLES
  wpm, one_shot,                    \* configuration
  rate, cwfunc, packfunc,           \* negotiated format (rate 0: none yet)
  samples_per_dot, samples_per_dash, samples_per_space,
  text, generated_morse, position,
  lock, new_text_pending, pending_text,
  about_to_finish_posted, playback_complete,
  started,                          \* between start() and stop()
  r_pc,                             \* streaming thread: where it is in create()
  c_pc, c_arg,                      \* application thread: inside set_property(text)
  ret, out_samples, out_tone,       \* result of the last finished create():
                                    \* flow return, samples, tone samples among them
  last_requested,                   \* the text of the latest accepted request
  atf_count, complete_count,        \* bus messages posted for the current plan
  idle_queue,                       \* idle callbacks scheduled and not yet run
  frequency, volume,                \* tone configuration (Hz, hundredths)
  phase, phase_increment,           \* oscillator, in units of 2*pi/rate radians
  timestamp,                        \* << seconds, nanoseconds >> of the next buffer
  out_pts, out_duration,            \* PTS and DURATION of the last buffer returned
  plan_duration, plan_samples,      \* durations and samples of the buffers
                                    \* returned since the plan was installed
  caps_ret,                         \* what the last setcaps() returned
  prop_result,                      \* how the last set_property() ended
  observed,                         \* outputs this specification follows
  plan_buffers,                     \* buffers returned since the plan was installed
  local_dot, local_dash, local_space, \* create: the locals samples_per_dot,
                                    \* samples_per_dash and samples_per_space
  str,                              \* morse_send_string: the text left to send
  cs_text, cs_out, cs_done,         \* compiler applied to one input text
  cw_rate, cw_frequency,            \* generator applied to one burst: rate and
  cw_samples, cw_i,                 \* frequency, samples asked for, index i,
  cw_envelope, cw_phase             \* envelope << num, den >> and phase

vars == << wpm, one_shot, rate, cwfunc, packfunc,
           samples_per_dot, samples_per_dash, samples_per_space,
           text, generated_morse, position,
           lock, new_text_pending, pending_text,
           about_to_finish_posted, playback_complete, started,
           r_pc, c_pc, c_arg, ret, out_samples, out_tone,
           last_requested, atf_count, complete_count, idle_queue,
           frequency, volume, phase, phase_increment,
           timestamp, out_pts, out_duration, plan_duration, plan_samples,
           caps_ret, prop_result, observed, plan_buffers,
           local_dot, local_dash, local_space, str,
           cs_text, cs_out, cs_done,
           cw_rate, cw_frequency, cw_samples, cw_i, cw_envelope, cw_phase >>

engineVars == << wpm, one_shot, rate, cwfunc, packfunc,
           samples_per_dot, samples_per_dash, samples_per_space,
           text, generated_morse, position,
           lock, new_text_pending, pending_text,
           about_to_finish_posted, playback_complete, started,
           r_pc, c_pc, c_arg, ret, out_samples, out_tone,
           last_requested, atf_count, complete_count, idle_queue,
           frequency, volume, phase, phase_increment,
           timestamp, out_pts, out_duration, plan_duration, plan_samples,
           caps_ret, prop_result, observed, plan_buffers,
           local_dot, local_dash, local_space, str >>

compilerVars == << cs_text, cs_out, cs_done >>

\* The generator applied to one burst on its own.
generatorVars == << cw_rate, cw_frequency, cw_samples, cw_i, cw_envelope,
                   cw_phase >>

\* Locals of create and of morse_send_string that live across steps of
\* the streaming thread.
localVars == << local_dot, local_dash, local_space, str >>

\* The oscillator, the stream clock, and the results of the last calls.
oscVars == << frequency, volume, phase, phase_increment >>
clockVars == << timestamp, out_pts, out_duration, plan_duration, plan_samples,
               plan_buffers >>
callVars == << caps_ret, prop_result >>

(***************************************************************************)
(* What a specification follows                                            *)
(*                                                                         *)
(* The engine writes phase, the timestamps and the call results but never  *)
(* reads them to decide anything: no guard and no other variable depends   *)
(* on them.  A specification names in observed the outputs its claims are  *)
(* about ("phase", "time", "calls"); the others stay at their initial      *)
(* value, which keeps the state space of the control flow apart from the   *)
(* state space of the signal.                                              *)
(***************************************************************************)

Observe(aspect, new, old) == IF aspect \in observed THEN new ELSE old


(***************************************************************************)
(* Timing                                                                  *)
(***************************************************************************)

\* MIN that ignores its first argument.
MinIgnoreRoom(a, b) == b

Min(a, b) == IF a < b THEN a ELSE b

\* CLAMP(wpm, MIN_WPM, MAX_WPM)
ClampWpm(v) == IF v < MIN_WPM THEN MIN_WPM ELSE IF v > MAX_WPM THEN MAX_WPM ELSE v

\* (wpm, rate) pairs of the model for which the double product
\* (1.2 / wpm) * rate comes out just below its exact integer value:
\* 1.2 / 6 * 1000 evaluates to 199.99..., and the cast truncates it to 199.
DoubleShortfall ==
  { << 6, 1000 >>, << 12, 1000 >>, << 24, 1000 >>,
    << 6, 8000 >>, << 12, 8000 >>, << 24, 8000 >> }

\* (guint)(dot_duration * rate) with dot_duration = 1.2 / wpm: the cast
\* truncates the double product.
DotProduct(w, r) ==
  ((6 * r) \div (5 * w)) - (IF << w, r >> \in DoubleShortfall THEN 1 ELSE 0)

\* The timing computation without the floor of 100 samples.
DotSamplesNoFloor(w, r) == DotProduct(w, r)

\* samples_per_dot as set_property(wpm) and setcaps compute it.
DotSamples(w, r) ==
  IF DotProduct(w, r) < MinDotSamples THEN MinDotSamples ELSE DotProduct(w, r)

\* The frequency clamp without its upper bound.
ClampFrequencyLowOnly(f) == IF f < MIN_FREQUENCY THEN MIN_FREQUENCY ELSE f

\* CLAMP(freq, MIN_FREQUENCY, MAX_FREQUENCY)
ClampFrequency(f) ==
  IF f < MIN_FREQUENCY THEN MIN_FREQUENCY
  ELSE IF f > MAX_FREQUENCY THEN MAX_FREQUENCY ELSE f

\* CLAMP(vol, MIN_VOLUME, MAX_VOLUME)
ClampVolume(v) ==
  IF v < MIN_VOLUME THEN MIN_VOLUME
  ELSE IF v > MAX_VOLUME THEN MAX_VOLUME ELSE v

(***************************************************************************)
(* The stream clock                                                        *)
(*                                                                         *)
(* A GstClockTime is a 64-bit count of nanoseconds; it is kept here as     *)
(* << seconds, nanoseconds >> with nanoseconds below GST_SECOND.           *)
(***************************************************************************)

ZeroTime == << 0, 0 >>

\* The first k decimal digits of x / r for x < r, as an integer.
RECURSIVE ScaleDigits(_, _, _, _)
ScaleDigits(x, r, k, acc) ==
  IF k = 0
    THEN acc
    ELSE ScaleDigits((x * 10) % r, r, k - 1, acc * 10 + ((x * 10) \div r))

\* gst_util_uint64_scale(n, GST_SECOND, r): n * GST_SECOND / r rounded down.
SamplesToTime(n, r) == << n \div r, ScaleDigits(n % r, r, 9, 0) >>

\* a + b on clock times (src->timestamp += GST_BUFFER_DURATION(buf)).
TimeAdd(a, b) ==
  IF a[2] + b[2] >= GST_SECOND
    THEN << a[1] + b[1] + 1, a[2] + b[2] - GST_SECOND >>
    ELSE << a[1] + b[1], a[2] + b[2] >>

(***************************************************************************)
(* The oscillator                                                          *)
(*                                                                         *)
(* phase and phase_increment are counted in units of 2*pi/rate radians, so *)
(* that phase_increment = 2*pi*frequency/rate is the integer frequency and *)
(* a full turn of 2*pi is the integer rate.                                *)
(***************************************************************************)

\* One sample of CW_GENERATOR: phase += phase_increment, then a single
\* subtraction of 2*pi when the phase has reached it.
CwStep(ph, inc, turn) ==
  IF ph + inc >= turn THEN ph + inc - turn ELSE ph + inc

\* The phase after the generator has written n samples, one CwStep each.
\* With an increment of a full turn or more every step reaches the turn
\* and takes one turn off, so the phase gains inc - turn per sample.  With
\* a smaller increment a phase below the turn stays below it and every
\* step is an addition modulo the turn; a phase of a turn or more first
\* loses turn - inc per sample until it is below the turn.
CwPhase(ph, inc, turn, n) ==
  IF inc >= turn
    THEN ph + n * (inc - turn)
    ELSE IF ph < turn
      THEN (ph + n * inc) % turn
      ELSE LET k == Min(n, ((ph - turn) \div (turn - inc)) + 1)
               base == ph - k * (turn - inc)
           IN IF base >= turn THEN base ELSE (base + (n - k) * inc) % turn

\* The fade length bounded by the whole burst instead of half of it.
FadeSamplesWholeBurst(r, samples) == Min((r * 20) \div 1000, samples)

\* gint fade_samples = (gint)(0.020 * rate), then MIN(fade_samples,
\* samples / 2): the cast cuts the product to its integer part.
FadeSamples(r, samples) == Min((r * 20) \div 1000, samples \div 2)

\* The envelope of sample i as << numerator, denominator >>: i / fade
\* while fading in, (samples - i) / fade while fading out, 1.0 between.
Envelope(i, samples, fade) ==
  IF i < fade THEN << i, fade >>
  ELSE IF i > samples - fade THEN << samples - i, fade >>
  ELSE << 1, 1 >>

(***************************************************************************)
(* Initial state: gst_morse_src_init on a zero-filled instance             *)
(***************************************************************************)

InitEngine ==
  /\ wpm = DEFAULT_WPM
  /\ one_shot = FALSE
  /\ rate = 0
  /\ cwfunc = "NULL"
  /\ packfunc = "NULL"
  /\ samples_per_dot = 0
  /\ samples_per_dash = 0
  /\ samples_per_space = 0
  /\ text = TextOK
  /\ generated_morse = NULLMORSE
  /\ position = 0
  /\ lock = "none"
  /\ new_text_pending = FALSE
  /\ pending_text = NULLTEXT
  /\ about_to_finish_posted = FALSE
  /\ playback_complete = FALSE
  /\ started = FALSE
  /\ r_pc = "idle"
  /\ c_pc = "idle"
  /\ c_arg = << >>
  /\ ret = "none"
  /\ out_samples = 0
  /\ out_tone = 0
  /\ last_requested = NULLTEXT
  /\ atf_count = 0
  /\ complete_count = 0
  /\ idle_queue = 0
  /\ frequency = DEFAULT_FREQUENCY
  /\ volume = DEFAULT_VOLUME
  /\ phase = 0
  /\ phase_increment = 0
  /\ timestamp = ZeroTime
  /\ out_pts = ZeroTime
  /\ out_duration = ZeroTime
  /\ plan_duration = ZeroTime
  /\ plan_samples = 0
  /\ caps_ret = "none"
  /\ prop_result = "none"
  /\ plan_buffers = 0
  /\ local_dot = 0
  /\ local_dash = 0
  /\ local_space = 0
  /\ str = << >>

\* No burst is being generated.
NoBurst ==
  /\ cw_rate = 0
  /\ cw_frequency = 0
  /\ cw_samples = 0
  /\ cw_i = 0
  /\ cw_envelope = << 1, 1 >>
  /\ cw_phase = 0

Init ==
  /\ InitEngine
  /\ observed = { }
  /\ cs_text = << >>
  /\ cs_out = << >>
  /\ cs_done = FALSE
  /\ NoBurst

(***************************************************************************)
(* Application thread: gst_morse_src_set_property                          *)
(***************************************************************************)

\* The process is alive: no g_assert_not_reached() has aborted it.  Every
\* handler below runs only in a live process.
Running == caps_ret # "abort"

\* case PROP_FREQUENCY
SetFrequency(f) ==
  /\ Running
  /\ frequency' = ClampFrequency(f)
  /\ phase_increment' = IF rate > 0 THEN ClampFrequency(f) ELSE phase_increment
  /\ prop_result' = Observe("calls",
                            IF f < MIN_FREQUENCY \/ f > MAX_FREQUENCY
                              THEN "clamped" ELSE "stored",
                            prop_result)
  /\ UNCHANGED << wpm, one_shot, rate, cwfunc, packfunc,
                  samples_per_dot, samples_per_dash, samples_per_space,
                  text, generated_morse, position, lock, new_text_pending,
                  pending_text, about_to_finish_posted, playback_complete,
                  started, r_pc, c_pc, c_arg, ret, out_samples, atf_count,
                  complete_count, idle_queue, out_tone, last_requested,
                  volume, phase, clockVars, caps_ret, observed,
                  compilerVars, generatorVars, localVars >>

\* case PROP_VOLUME
SetVolume(v) ==
  /\ Running
  /\ volume' = ClampVolume(v)
  /\ prop_result' = Observe("calls",
                            IF v < MIN_VOLUME \/ v > MAX_VOLUME
                              THEN "clamped" ELSE "stored",
                            prop_result)
  /\ UNCHANGED << wpm, one_shot, rate, cwfunc, packfunc,
                  samples_per_dot, samples_per_dash, samples_per_space,
                  text, generated_morse, position, lock, new_text_pending,
                  pending_text, about_to_finish_posted, playback_complete,
                  started, r_pc, c_pc, c_arg, ret, out_samples, atf_count,
                  complete_count, idle_queue, out_tone, last_requested,
                  frequency, phase, phase_increment, clockVars, caps_ret,
                  observed, compilerVars, generatorVars, localVars >>

\* case PROP_WPM
SetWpm(v) ==
  /\ Running
  /\ wpm' = ClampWpm(v)
  /\ prop_result' = Observe("calls",
                            IF v < MIN_WPM \/ v > MAX_WPM
                              THEN "clamped" ELSE "stored",
                            prop_result)
  /\ IF rate > 0
       THEN /\ samples_per_dot' = DotSamples(ClampWpm(v), rate)
            /\ samples_per_dash' = DotSamples(ClampWpm(v), rate) * 3
            /\ samples_per_space' = DotSamples(ClampWpm(v), rate)
       ELSE UNCHANGED << samples_per_dot, samples_per_dash, samples_per_space >>
  /\ UNCHANGED << one_shot, rate, cwfunc, packfunc, text, generated_morse,
                  position, lock, new_text_pending, pending_text,
                  about_to_finish_posted, playback_complete, started,
                  r_pc, c_pc, c_arg, ret, out_samples, atf_count,
                  complete_count, idle_queue, out_tone, last_requested,
                  oscVars, clockVars, caps_ret, observed,
                  compilerVars, generatorVars, localVars >>

\* case PROP_ONE_SHOT
SetOneShot(b) ==
  /\ Running
  /\ one_shot' = b
  /\ prop_result' = Observe("calls", "stored", prop_result)
  /\ UNCHANGED << wpm, rate, cwfunc, packfunc,
                  samples_per_dot, samples_per_dash, samples_per_space,
                  text, generated_morse, position, lock, new_text_pending,
                  pending_text, about_to_finish_posted, playback_complete,
                  started, r_pc, c_pc, c_arg, ret, out_samples, atf_count,
                  complete_count, idle_queue, out_tone, last_requested,
                  oscVars, clockVars, caps_ret, observed,
                  compilerVars, generatorVars, localVars >>

\* case PROP_TEXT up to g_mutex_lock without the test for an empty text.
SetTextLockAcceptEmpty(t) ==
  /\ Running
  /\ c_pc = "idle"
  /\ lock = "none"
  /\ lock' = "control"
  /\ c_pc' = "locked"
  /\ c_arg' = t
  /\ UNCHANGED << wpm, one_shot, rate, cwfunc, packfunc,
                  samples_per_dot, samples_per_dash, samples_per_space,
                  text, generated_morse, position, new_text_pending,
                  pending_text, about_to_finish_posted, playback_complete,
                  started, r_pc, ret, out_samples, atf_count,
                  complete_count, idle_queue, out_tone, last_requested,
                  oscVars, clockVars, callVars, observed, compilerVars, generatorVars, localVars >>

\* case PROP_TEXT up to g_mutex_lock: an empty text returns at once,
\* any other waits for the lock and takes it.
SetTextLock(t) ==
  /\ Running
  /\ c_pc = "idle"
  /\ IF t = << >>
       THEN /\ prop_result' = Observe("calls", "ignored", prop_result)
            /\ UNCHANGED << lock, c_pc, c_arg >>
       ELSE /\ lock = "none"
            /\ UNCHANGED prop_result
            /\ lock' = "control"
            /\ c_pc' = "locked"
            /\ c_arg' = t
  /\ UNCHANGED << wpm, one_shot, rate, cwfunc, packfunc,
                  samples_per_dot, samples_per_dash, samples_per_space,
                  text, generated_morse, position, new_text_pending,
                  pending_text, about_to_finish_posted, playback_complete,
                  started, r_pc, ret, out_samples, atf_count,
                  complete_count, idle_queue, out_tone, last_requested,
                  oscVars, clockVars, caps_ret, observed,
                  compilerVars, generatorVars, localVars >>

\* case PROP_TEXT from the lock to the unlock.
SetTextStore ==
  /\ Running
  /\ c_pc = "locked"
  /\ pending_text' = c_arg
  /\ new_text_pending' = TRUE
  /\ playback_complete' = FALSE
  /\ lock' = "none"
  /\ c_pc' = "idle"
  /\ c_arg' = << >>
  /\ last_requested' = c_arg
  /\ prop_result' = Observe("calls", "stored", prop_result)
  /\ UNCHANGED << wpm, one_shot, rate, cwfunc, packfunc,
                  samples_per_dot, samples_per_dash, samples_per_space,
                  text, generated_morse, position, about_to_finish_posted,
                  started, r_pc, ret, out_samples, out_tone, atf_count,
                  complete_count, idle_queue, oscVars, clockVars, caps_ret, observed,
                  compilerVars, generatorVars, localVars >>


(***************************************************************************)
(* Streaming side: setcaps, start, stop, the idle callback                 *)
(***************************************************************************)

\* info.finfo->unpack_format: the format a non-canonical format is
\* rendered in before its pack function converts it.
UnpackFormat(fmt) ==
  CASE fmt \in {"S8", "U16", "S24"} -> "S32"
    [] fmt \in {"F32BE", "F64BE"} -> "F64"
    [] OTHER -> "UNKNOWN"

\* The generator setcaps selects for a format; it stays NULL for a format
\* that is neither canonical nor unpacked to S32 or F64.
GeneratorFor(fmt) ==
  CASE fmt = "S16" -> "gint16"
    [] fmt = "S32" -> "gint32"
    [] fmt = "F32" -> "gfloat"
    [] fmt = "F64" -> "gdouble"
    [] OTHER -> CASE UnpackFormat(fmt) = "S32" -> "gint32"
                  [] UnpackFormat(fmt) = "F64" -> "gdouble"
                  [] OTHER -> "NULL"

\* A format outside the four canonical ones is repacked by the format's
\* pack function.
PackFor(fmt) ==
  IF fmt \in {"S16", "S32", "F32", "F64"} \/ UnpackFormat(fmt) = "UNKNOWN"
    THEN "NULL"
    ELSE "pack"

\* What setcaps does after the switch on the format: it returns TRUE, but
\* for a format with no generator it runs into g_assert_not_reached(),
\* which aborts the process, or does nothing in a build with
\* G_DISABLE_ASSERT.
CapsOutcomes(fmt) ==
  IF GeneratorFor(fmt) = "NULL" THEN {"abort", "TRUE"} ELSE {"TRUE"}

\* gst_morse_src_setcaps: unparsable caps change nothing.
SetCaps(fmt, r) ==
  /\ Running
  /\ r_pc = "idle"
  /\ IF fmt = "invalid"
       THEN /\ caps_ret' = Observe("calls", "FALSE", caps_ret)
            /\ UNCHANGED << rate, cwfunc, packfunc, phase, phase_increment,
                            samples_per_dot, samples_per_dash, samples_per_space >>
       ELSE /\ samples_per_dot' = DotSamples(wpm, r)
            /\ samples_per_dash' = DotSamples(wpm, r) * 3
            /\ samples_per_space' = DotSamples(wpm, r)
            /\ rate' = r
            /\ cwfunc' = GeneratorFor(fmt)
            /\ packfunc' = PackFor(fmt)
            /\ phase' = 0
            /\ phase_increment' = frequency
            /\ \E outcome \in CapsOutcomes(fmt) :
                 caps_ret' = Observe("calls", outcome, caps_ret)
  /\ UNCHANGED << wpm, one_shot, text, generated_morse, position, lock,
                  new_text_pending, pending_text, about_to_finish_posted,
                  playback_complete, started, r_pc, c_pc, c_arg, ret,
                  out_samples, out_tone, last_requested, atf_count,
                  complete_count, idle_queue, frequency, volume, clockVars, prop_result, observed,
                  compilerVars, generatorVars, localVars >>

\* gst_morse_src_start; the text is never empty (init sets "OK" and
\* update_text only installs non-empty texts), so the default branch
\* leaves it alone.
Start ==
  /\ Running
  /\ r_pc = "idle"
  /\ ~started
  /\ started' = TRUE
  /\ playback_complete' = FALSE
  /\ text' = IF text = << >> THEN TextOK ELSE text
  /\ generated_morse' = morse_send_string(<< >>, text')
  /\ position' = 0
  /\ timestamp' = ZeroTime
  /\ plan_duration' = ZeroTime
  /\ plan_samples' = 0
  /\ plan_buffers' = 0
  /\ about_to_finish_posted' = FALSE
  /\ atf_count' = 0
  /\ complete_count' = 0
  /\ UNCHANGED << wpm, one_shot, rate, cwfunc, packfunc,
                  samples_per_dot, samples_per_dash, samples_per_space,
                  lock, new_text_pending, pending_text, r_pc, c_pc, c_arg,
                  ret, out_samples, idle_queue, out_tone, last_requested,
                  out_pts, out_duration, oscVars, callVars, observed,
                  compilerVars, generatorVars, localVars >>

\* The body of gst_morse_src_stop entered without waiting for the lock.
StopBodyLockNotAwaited ==
  /\ generated_morse' = NULLMORSE
  /\ playback_complete' = FALSE
  /\ started' = FALSE
  /\ atf_count' = 0
  /\ complete_count' = 0

\* The body of gst_morse_src_stop, run with the lock held.
StopBody ==
  /\ lock = "none"
  /\ generated_morse' = NULLMORSE
  /\ playback_complete' = FALSE
  /\ started' = FALSE
  /\ atf_count' = 0
  /\ complete_count' = 0

\* gst_morse_src_stop
Stop ==
  /\ Running
  /\ r_pc = "idle"
  /\ started
  /\ StopBody
  /\ UNCHANGED << wpm, one_shot, rate, cwfunc, packfunc,
                  samples_per_dot, samples_per_dash, samples_per_space,
                  text, position, lock, new_text_pending, pending_text,
                  about_to_finish_posted, r_pc, c_pc, c_arg, ret,
                  out_samples, idle_queue, out_tone, last_requested,
                  oscVars, clockVars, callVars, observed,
                  compilerVars, generatorVars, localVars >>

\* gst_morse_src_idle_state_change: the main loop runs the callback, which
\* sets the element to READY; a started source is stopped on the way.
IdleStateChange ==
  /\ Running
  /\ r_pc = "idle"
  /\ idle_queue > 0
  /\ idle_queue' = idle_queue - 1
  /\ IF started
       THEN StopBody
       ELSE UNCHANGED << generated_morse, playback_complete, started,
                         atf_count, complete_count >>
  /\ UNCHANGED << wpm, one_shot, rate, cwfunc, packfunc,
                  samples_per_dot, samples_per_dash, samples_per_space,
                  text, position, lock, new_text_pending, pending_text,
                  about_to_finish_posted, r_pc, c_pc, c_arg, ret,
                  out_samples, out_tone, last_requested, oscVars, clockVars, callVars, observed,
                  compilerVars, generatorVars, localVars >>


(***************************************************************************)
(* Streaming thread: gst_morse_src_create                                  *)
(***************************************************************************)

\* The 90% test replaced by a test for the end of the plan.
NearEndAtEnd(pos, len) == pos >= len

\* The 90% test replaced by a test for a position beyond the plan.
NearEndBeyondPlan(pos, len) == pos > len

\* The plan is past its 90% mark: position > len * 0.9.
NearEnd(pos, len) == 10 * pos > 9 * len

\* The switch on symbol with a dash of two dots.
NominalSamplesDashTwo(symbol, spd) ==
  CASE symbol = Dot -> spd
    [] symbol = Dash -> spd * 2
    [] symbol = Gap -> spd
    [] OTHER -> 0

\* Samples of one symbol before clamping (the switch on symbol).
NominalSamples(symbol, spd) ==
  CASE symbol = Dot -> spd
    [] symbol = Dash -> spd * 3
    [] symbol = Gap -> spd
    [] OTHER -> 0

\* The while loop of create leaving the position on a unit that was
\* clamped short, so that the next call renders it again.
RECURSIVE FillLoopRepeatTail(_, _, _, _, _)
FillLoopRepeatTail(i, pos, tone, plan, spd) ==
  IF i < max_samples /\ pos < Len(plan)
    THEN LET symbol == plan[pos + 1]
             num_samples == Min(max_samples - i, NominalSamples(symbol, spd))
             clamped == num_samples < NominalSamples(symbol, spd)
         IN FillLoopRepeatTail(i + num_samples,
                               IF clamped THEN pos ELSE pos + 1,
                               IF symbol # Gap THEN tone + num_samples ELSE tone,
                               plan, spd)
    ELSE << i, pos, tone >>

\* The while loop of create with the gap made up for whether or not a
\* whole gap still fits the buffer.
RECURSIVE FillLoopPadAlways(_, _, _, _, _)
FillLoopPadAlways(i, pos, tone, plan, spd) ==
  IF i < max_samples /\ pos < Len(plan)
    THEN LET symbol == plan[pos + 1]
             num_samples == Min(max_samples - i, NominalSamples(symbol, spd))
             i1 == i + num_samples
             i2 == IF num_samples < spd
                     THEN i1 + (spd - num_samples)
                     ELSE i1
         IN FillLoopPadAlways(i2, pos + 1,
                              IF symbol # Gap THEN tone + num_samples ELSE tone,
                              plan, spd)
    ELSE << i, pos, tone >>

\* The while loop of create: returns the fill offset i, the position and
\* the number of tone samples written once the loop has ended.
RECURSIVE FillLoop(_, _, _, _, _)
FillLoop(i, pos, tone, plan, spd) ==
  IF i < max_samples /\ pos < Len(plan)
    THEN LET symbol == plan[pos + 1]
             num_samples == Min(max_samples - i, NominalSamples(symbol, spd))
             i1 == i + num_samples
             i2 == IF num_samples < spd /\ spd < max_samples - i1
                     THEN i1 + (spd - num_samples)
                     ELSE i1
         IN FillLoop(i2, pos + 1,
                     IF symbol # Gap THEN tone + num_samples ELSE tone,
                     plan, spd)
    ELSE << i, pos, tone >>

\* create, line 582: the unlocked test of new_text_pending.
CreateBegin ==
  /\ Running
  /\ r_pc = "idle"
  /\ rate > 0
  /\ idle_queue < MaxIdleQueue
  /\ r_pc' = IF new_text_pending THEN "update" ELSE "body"
  /\ UNCHANGED << wpm, one_shot, rate, cwfunc, packfunc,
                  samples_per_dot, samples_per_dash, samples_per_space,
                  text, generated_morse, position, lock, new_text_pending,
                  pending_text, about_to_finish_posted, playback_complete,
                  started, c_pc, c_arg, ret, out_samples, out_tone,
                  last_requested, atf_count, complete_count, idle_queue,
                  oscVars, clockVars, callVars, observed,
                  compilerVars, generatorVars, localVars >>

\* update_text that leaves the slot marked pending.
UpdateTextKeepPending ==
  IF ~new_text_pending \/ pending_text = NULLTEXT
    THEN UNCHANGED << text, pending_text, new_text_pending, generated_morse,
                      position, about_to_finish_posted, playback_complete,
                      atf_count, complete_count >>
    ELSE /\ text' = pending_text
         /\ pending_text' = NULLTEXT
         /\ new_text_pending' = TRUE
         /\ generated_morse' = morse_send_string(<< >>, pending_text)
         /\ position' = 0
         /\ about_to_finish_posted' = FALSE
         /\ playback_complete' = FALSE
         /\ atf_count' = 0
         /\ complete_count' = 0

\* update_text without src->position = 0.
UpdateTextKeepPosition ==
  IF ~new_text_pending \/ pending_text = NULLTEXT
    THEN UNCHANGED << text, pending_text, new_text_pending, generated_morse,
                      position, about_to_finish_posted, playback_complete,
                      atf_count, complete_count >>
    ELSE /\ text' = pending_text
         /\ pending_text' = NULLTEXT
         /\ new_text_pending' = FALSE
         /\ generated_morse' = morse_send_string(<< >>, pending_text)
         /\ position' = position
         /\ about_to_finish_posted' = FALSE
         /\ playback_complete' = FALSE
         /\ atf_count' = 0
         /\ complete_count' = 0

\* gst_morse_src_update_text, from g_mutex_lock to g_mutex_unlock.
UpdateText ==
  IF ~new_text_pending \/ pending_text = NULLTEXT
    THEN UNCHANGED << text, pending_text, new_text_pending, generated_morse,
                      position, about_to_finish_posted, playback_complete,
                      atf_count, complete_count >>
    ELSE /\ text' = pending_text
         /\ pending_text' = NULLTEXT
         /\ new_text_pending' = FALSE
         /\ generated_morse' = morse_send_string(<< >>, pending_text)
         /\ position' = 0
         /\ about_to_finish_posted' = FALSE
         /\ playback_complete' = FALSE
         /\ atf_count' = 0
         /\ complete_count' = 0

\* update_text goes past its early return.
UpdateApplies == new_text_pending /\ pending_text # NULLTEXT

\* update_text without src->timestamp = 0.
UpdatedTimestampKept == timestamp

\* src->timestamp when update_text returns: src->timestamp = 0 if the
\* text was applied.
UpdatedTimestamp == IF UpdateApplies THEN ZeroTime ELSE timestamp

\* The settle buffer with one sample too many.
SettleSamplesPlusOne(spd) == spd + 1

\* guint num_samples = src->samples_per_dot for the silent buffer.
SettleSamples(spd) == spd

\* create, lines 583-601: the pending text is applied under the lock and
\* one silent buffer is returned.
CreateUpdate ==
  /\ Running
  /\ r_pc = "update"
  /\ lock = "none"
  /\ UpdateText
  /\ IF generated_morse' = NULLMORSE \/ Len(generated_morse') = 0
       THEN /\ ret' = "EOS"
            /\ out_samples' = 0
            /\ timestamp' = UpdatedTimestamp
            /\ plan_duration' = IF UpdateApplies THEN ZeroTime ELSE plan_duration
            /\ plan_samples' = IF UpdateApplies THEN 0 ELSE plan_samples
            /\ plan_buffers' = IF UpdateApplies THEN 0 ELSE plan_buffers
            /\ UNCHANGED << out_pts, out_duration >>
       ELSE LET num_samples == SettleSamples(samples_per_dot)
                duration == SamplesToTime(num_samples, rate)
            IN /\ ret' = "OK"
               /\ out_samples' = num_samples
               /\ out_pts' = Observe("time", UpdatedTimestamp, out_pts)
               /\ out_duration' = Observe("time", duration, out_duration)
               /\ timestamp' = Observe("time",
                                       TimeAdd(UpdatedTimestamp, duration),
                                       timestamp)
               /\ plan_duration' =
                    Observe("time",
                            IF UpdateApplies
                              THEN duration
                              ELSE TimeAdd(plan_duration, duration),
                            plan_duration)
               /\ plan_samples' =
                    Observe("time",
                            IF UpdateApplies
                              THEN num_samples
                              ELSE plan_samples + num_samples,
                            plan_samples)
               /\ plan_buffers' =
                    Observe("time",
                            IF UpdateApplies THEN 1 ELSE plan_buffers + 1,
                            plan_buffers)
  /\ out_tone' = 0
  /\ r_pc' = "idle"
  /\ UNCHANGED << wpm, one_shot, rate, cwfunc, packfunc,
                  samples_per_dot, samples_per_dash, samples_per_space,
                  lock, started, c_pc, c_arg, last_requested, idle_queue,
                  oscVars, callVars, observed, compilerVars, generatorVars, localVars >>

\* The end-of-plan test with the playback_complete test dropped.
EndReturnIgnoreComplete(os, pc) == IF os THEN "FLUSHING" ELSE "EOS"

\* The end-of-plan test with the one_shot test dropped.
EndReturnNoOneShotTest(os, pc) == IF ~pc THEN "FLUSHING" ELSE "EOS"

\* An exhausted plan answered with a buffer.
EndReturnData(os, pc) == "OK"

\* create, lines 604-615: what an exhausted plan returns.
EndReturn(os, pc) == IF os /\ ~pc THEN "FLUSHING" ELSE "EOS"

\* create, lines 603-704: end of plan, or one filled buffer.
CreateBody ==
  /\ Running
  /\ r_pc = "body"
  /\ r_pc' = "idle"
  /\ IF generated_morse = NULLMORSE \/ position >= Len(generated_morse)
       THEN /\ ret' = EndReturn(one_shot, playback_complete)
            /\ IF ret' = "FLUSHING"
                 THEN /\ playback_complete' = TRUE
                      /\ complete_count' = complete_count + 1
                      /\ idle_queue' = idle_queue + 1
                 ELSE UNCHANGED << playback_complete, complete_count,
                                   idle_queue >>
            /\ out_samples' = 0
            /\ out_tone' = 0
            /\ UNCHANGED << position, about_to_finish_posted, atf_count,
                            phase, clockVars >>
       ELSE LET filled == FillLoop(0, position, 0, generated_morse,
                                   samples_per_dot)
                duration == SamplesToTime(filled[1], rate)
            IN /\ position' = filled[2]
               /\ out_samples' = filled[1]
               /\ out_tone' = filled[3]
               /\ phase' = Observe("phase",
                                   CwPhase(phase, phase_increment, rate,
                                           filled[3]),
                                   phase)
               /\ out_pts' = Observe("time", timestamp, out_pts)
               /\ out_duration' = Observe("time", duration, out_duration)
               /\ timestamp' = Observe("time", TimeAdd(timestamp, duration),
                                       timestamp)
               /\ plan_duration' = Observe("time",
                                           TimeAdd(plan_duration, duration),
                                           plan_duration)
               /\ plan_samples' = Observe("time", plan_samples + filled[1],
                                          plan_samples)
               /\ plan_buffers' = Observe("time", plan_buffers + 1,
                                          plan_buffers)
               /\ IF NearEnd(filled[2], Len(generated_morse))
                       /\ ~about_to_finish_posted
                    THEN /\ about_to_finish_posted' = TRUE
                         /\ atf_count' = atf_count + 1
                    ELSE UNCHANGED << about_to_finish_posted, atf_count >>
               /\ ret' = "OK"
               /\ UNCHANGED << playback_complete, complete_count, idle_queue >>
  /\ UNCHANGED << wpm, one_shot, rate, cwfunc, packfunc,
                  samples_per_dot, samples_per_dash, samples_per_space,
                  text, generated_morse, lock, new_text_pending,
                  pending_text, started, c_pc, c_arg, last_requested,
                  frequency, volume, phase_increment, callVars, observed,
                  compilerVars, generatorVars, localVars >>

(***************************************************************************)
(* Streaming thread: the fill branch of create load by load                *)
(*                                                                         *)
(* CreateBody takes the three loads of src->samples_per_dot of lines       *)
(* 618-620 as one, which is what a build that keeps the field in a         *)
(* register does.  The field is written by set_property(wpm) on the        *)
(* application thread with no lock held, so a build that loads it three    *)
(* times can see a write between two loads; the actions below take the     *)
(* loads one at a time.                                                    *)
(***************************************************************************)

\* create, lines 603-616 only: the plan is missing or exhausted.
CreateEnd ==
  /\ generated_morse = NULLMORSE \/ position >= Len(generated_morse)
  /\ CreateBody

\* create, line 618: guint samples_per_dot = src->samples_per_dot
CreateReadDot ==
  /\ Running
  /\ r_pc = "body"
  /\ generated_morse # NULLMORSE
  /\ position < Len(generated_morse)
  /\ local_dot' = samples_per_dot
  /\ r_pc' = "read_dash"
  /\ UNCHANGED << wpm, one_shot, rate, cwfunc, packfunc,
                  samples_per_dot, samples_per_dash, samples_per_space,
                  text, generated_morse, position, lock, new_text_pending,
                  pending_text, about_to_finish_posted, playback_complete,
                  started, c_pc, c_arg, ret, out_samples, out_tone,
                  last_requested, atf_count, complete_count, idle_queue,
                  oscVars, clockVars, callVars, observed,
                  local_dash, local_space, str,
                  compilerVars, generatorVars >>

\* create, line 619: guint samples_per_dash = src->samples_per_dot * 3
CreateReadDash ==
  /\ Running
  /\ r_pc = "read_dash"
  /\ local_dash' = samples_per_dot * 3
  /\ r_pc' = "read_space"
  /\ UNCHANGED << wpm, one_shot, rate, cwfunc, packfunc,
                  samples_per_dot, samples_per_dash, samples_per_space,
                  text, generated_morse, position, lock, new_text_pending,
                  pending_text, about_to_finish_posted, playback_complete,
                  started, c_pc, c_arg, ret, out_samples, out_tone,
                  last_requested, atf_count, complete_count, idle_queue,
                  oscVars, clockVars, callVars, observed,
                  local_dot, local_space, str,
                  compilerVars, generatorVars >>

\* create, line 620: guint samples_per_space = src->samples_per_dot
CreateReadSpace ==
  /\ Running
  /\ r_pc = "read_space"
  /\ local_space' = samples_per_dot
  /\ r_pc' = "fill"
  /\ UNCHANGED << wpm, one_shot, rate, cwfunc, packfunc,
                  samples_per_dot, samples_per_dash, samples_per_space,
                  text, generated_morse, position, lock, new_text_pending,
                  pending_text, about_to_finish_posted, playback_complete,
                  started, c_pc, c_arg, ret, out_samples, out_tone,
                  last_requested, atf_count, complete_count, idle_queue,
                  oscVars, clockVars, callVars, observed,
                  local_dot, local_dash, str,
                  compilerVars, generatorVars >>

\* Samples of one symbol before clamping, from the locals of create.
LocalSamples(symbol, dot, dash, space) ==
  CASE symbol = Dot -> dot
    [] symbol = Dash -> dash
    [] symbol = Gap -> space
    [] OTHER -> 0

\* The while loop of create on the locals of create.
RECURSIVE FillLoopLocals(_, _, _, _, _, _, _)
FillLoopLocals(i, pos, tone, plan, dot, dash, space) ==
  IF i < max_samples /\ pos < Len(plan)
    THEN LET symbol == plan[pos + 1]
             num_samples == Min(max_samples - i,
                                LocalSamples(symbol, dot, dash, space))
             i1 == i + num_samples
             i2 == IF num_samples < space /\ space < max_samples - i1
                     THEN i1 + (space - num_samples)
                     ELSE i1
         IN FillLoopLocals(i2, pos + 1,
                           IF symbol # Gap THEN tone + num_samples ELSE tone,
                           plan, dot, dash, space)
    ELSE << i, pos, tone >>

\* create, lines 621-704: one buffer filled from the locals.
CreateFill ==
  /\ Running
  /\ r_pc = "fill"
  /\ r_pc' = "idle"
  /\ LET filled == FillLoopLocals(0, position, 0, generated_morse,
                                  local_dot, local_dash, local_space)
         duration == SamplesToTime(filled[1], rate)
     IN /\ position' = filled[2]
        /\ out_samples' = filled[1]
        /\ out_tone' = filled[3]
        /\ phase' = Observe("phase",
                            CwPhase(phase, phase_increment, rate, filled[3]),
                            phase)
        /\ out_pts' = Observe("time", timestamp, out_pts)
        /\ out_duration' = Observe("time", duration, out_duration)
        /\ timestamp' = Observe("time", TimeAdd(timestamp, duration),
                                timestamp)
        /\ plan_duration' = Observe("time",
                                    TimeAdd(plan_duration, duration),
                                    plan_duration)
        /\ plan_samples' = Observe("time", plan_samples + filled[1],
                                   plan_samples)
        /\ plan_buffers' = Observe("time", plan_buffers + 1, plan_buffers)
        /\ IF NearEnd(filled[2], Len(generated_morse))
                /\ ~about_to_finish_posted
             THEN /\ about_to_finish_posted' = TRUE
                  /\ atf_count' = atf_count + 1
             ELSE UNCHANGED << about_to_finish_posted, atf_count >>
        /\ ret' = "OK"
  /\ UNCHANGED << wpm, one_shot, rate, cwfunc, packfunc,
                  samples_per_dot, samples_per_dash, samples_per_space,
                  text, generated_morse, lock, new_text_pending,
                  pending_text, playback_complete, started, c_pc, c_arg,
                  last_requested, complete_count, idle_queue,
                  frequency, volume, phase_increment, callVars, observed,
                  compilerVars, generatorVars, localVars >>

(***************************************************************************)
(* Streaming thread: update_text step by step                              *)
(*                                                                         *)
(* CreateUpdate takes update_text and the silent buffer as one step.  The  *)
(* actions below take update_text apart at its lock, at every character    *)
(* morse_send_string sends, and at its unlock, so that what the streaming  *)
(* thread does while it holds the lock can be told from what it does       *)
(* without it.                                                             *)
(***************************************************************************)

\* update_text, line 260: g_mutex_lock
UpdateTextLock ==
  /\ Running
  /\ r_pc = "update"
  /\ lock = "none"
  /\ lock' = "render"
  /\ r_pc' = "update_locked"
  /\ UNCHANGED << wpm, one_shot, rate, cwfunc, packfunc,
                  samples_per_dot, samples_per_dash, samples_per_space,
                  text, generated_morse, position, new_text_pending,
                  pending_text, about_to_finish_posted, playback_complete,
                  started, c_pc, c_arg, ret, out_samples, out_tone,
                  last_requested, atf_count, complete_count, idle_queue,
                  oscVars, clockVars, callVars, observed,
                  compilerVars, generatorVars, localVars >>

\* update_text, lines 261-278: the early return, or the pending text
\* becomes the text and a new, empty plan is allocated;
\* morse_send_string is entered with the text.
UpdateTextSwap ==
  /\ Running
  /\ r_pc = "update_locked"
  /\ IF ~new_text_pending \/ pending_text = NULLTEXT
       THEN /\ lock' = "none"
            /\ r_pc' = "settle"
            /\ UNCHANGED << text, pending_text, new_text_pending,
                            generated_morse, str >>
       ELSE /\ text' = pending_text
            /\ pending_text' = NULLTEXT
            /\ new_text_pending' = FALSE
            /\ generated_morse' = << >>
            /\ str' = pending_text
            /\ r_pc' = "update_send"
            /\ UNCHANGED lock
  /\ UNCHANGED << wpm, one_shot, rate, cwfunc, packfunc,
                  samples_per_dot, samples_per_dash, samples_per_space,
                  position, about_to_finish_posted, playback_complete,
                  started, c_pc, c_arg, ret, out_samples, out_tone,
                  last_requested, atf_count, complete_count, idle_queue,
                  oscVars, clockVars, callVars, observed,
                  local_dot, local_dash, local_space,
                  compilerVars, generatorVars >>

\* morse_send_string, lines 393-397: one character is sent to the plan.
UpdateTextSend ==
  /\ Running
  /\ r_pc = "update_send"
  /\ str # << >>
  /\ generated_morse' = morse_send_char(generated_morse, toupper(Head(str)))
  /\ str' = Tail(str)
  /\ UNCHANGED << wpm, one_shot, rate, cwfunc, packfunc,
                  samples_per_dot, samples_per_dash, samples_per_space,
                  text, position, lock, new_text_pending,
                  pending_text, about_to_finish_posted, playback_complete,
                  started, r_pc, c_pc, c_arg, ret, out_samples, out_tone,
                  last_requested, atf_count, complete_count, idle_queue,
                  oscVars, clockVars, callVars, observed,
                  local_dot, local_dash, local_space,
                  compilerVars, generatorVars >>

\* morse_send_string, line 399, and update_text, lines 280-294: the three
\* closing blanks, the cursor and the flags reset, g_mutex_unlock.
UpdateTextReset ==
  /\ Running
  /\ r_pc = "update_send"
  /\ str = << >>
  /\ generated_morse' = generated_morse \o << Gap, Gap, Gap >>
  /\ position' = 0
  /\ about_to_finish_posted' = FALSE
  /\ playback_complete' = FALSE
  /\ atf_count' = 0
  /\ complete_count' = 0
  /\ timestamp' = Observe("time", ZeroTime, timestamp)
  /\ plan_duration' = ZeroTime
  /\ plan_samples' = 0
  /\ plan_buffers' = 0
  /\ lock' = "none"
  /\ r_pc' = "settle"
  /\ UNCHANGED << wpm, one_shot, rate, cwfunc, packfunc,
                  samples_per_dot, samples_per_dash, samples_per_space,
                  text, new_text_pending, pending_text,
                  started, c_pc, c_arg, ret, out_samples, out_tone,
                  last_requested, idle_queue, out_pts, out_duration,
                  oscVars, callVars, observed,
                  compilerVars, generatorVars, localVars >>

\* create, lines 584-600: update_text has returned; end of stream without
\* a plan, else one silent buffer of samples_per_dot samples.
CreateSettle ==
  /\ Running
  /\ r_pc = "settle"
  /\ r_pc' = "idle"
  /\ IF generated_morse = NULLMORSE \/ Len(generated_morse) = 0
       THEN /\ ret' = "EOS"
            /\ out_samples' = 0
            /\ UNCHANGED clockVars
       ELSE LET num_samples == SettleSamples(samples_per_dot)
                duration == SamplesToTime(num_samples, rate)
            IN /\ ret' = "OK"
               /\ out_samples' = num_samples
               /\ out_pts' = Observe("time", timestamp, out_pts)
               /\ out_duration' = Observe("time", duration, out_duration)
               /\ timestamp' = Observe("time", TimeAdd(timestamp, duration),
                                       timestamp)
               /\ plan_duration' = Observe("time",
                                           TimeAdd(plan_duration, duration),
                                           plan_duration)
               /\ plan_samples' = Observe("time", plan_samples + num_samples,
                                          plan_samples)
               /\ plan_buffers' = Observe("time", plan_buffers + 1,
                                          plan_buffers)
  /\ out_tone' = 0
  /\ UNCHANGED << wpm, one_shot, rate, cwfunc, packfunc,
                  samples_per_dot, samples_per_dash, samples_per_space,
                  text, generated_morse, position, lock, new_text_pending,
                  pending_text, about_to_finish_posted, playback_complete,
                  started, c_pc, c_arg, last_requested, atf_count,
                  complete_count, idle_queue, oscVars, callVars, observed,
                  compilerVars, generatorVars, localVars >>

(***************************************************************************)
(* The engine                                                              *)
(***************************************************************************)

Next ==
  \/ \E v \in WpmArgs : SetWpm(v)
  \/ \E b \in BOOLEAN : SetOneShot(b)
  \/ \E t \in TextArgs : SetTextLock(t)
  \/ SetTextStore
  \/ \E fmt \in Formats, r \in Rates : SetCaps(fmt, r)
  \/ Start
  \/ Stop
  \/ IdleStateChange
  \/ CreateBegin
  \/ CreateUpdate
  \/ CreateBody

Spec == Init /\ [][Next]_vars

(***************************************************************************)
(* The compiler on its own: one input text, compiled once                  *)
(***************************************************************************)

RECURSIVE TextsUpTo(_)
TextsUpTo(n) ==
  IF n = 0
    THEN { << >> }
    ELSE TextsUpTo(n - 1) \cup
         { Append(t, c) : t \in { u \in TextsUpTo(n - 1) : Len(u) = n - 1 },
                          c \in Alphabet }

InitCompile ==
  /\ InitEngine
  /\ observed = { }
  /\ cs_text \in TextsUpTo(MaxTextLen)
  /\ cs_out = << >>
  /\ cs_done = FALSE
  /\ NoBurst

\* compile: morse_send_string on a fresh GString.
Compile ==
  /\ ~cs_done
  /\ cs_out' = morse_send_string(<< >>, cs_text)
  /\ cs_done' = TRUE
  /\ UNCHANGED << cs_text, engineVars, generatorVars >>

NextCompile == Compile

SpecCompile == InitCompile /\ [][NextCompile]_vars

(***************************************************************************)
(* The configuration on its own: properties and caps, no rendering         *)
(***************************************************************************)

InitConfig ==
  /\ InitEngine
  /\ observed = {"calls"}
  /\ cs_text = << >>
  /\ cs_out = << >>
  /\ cs_done = FALSE
  /\ NoBurst

NextConfig ==
  \/ \E f \in FrequencyArgs : SetFrequency(f)
  \/ \E v \in VolumeArgs : SetVolume(v)
  \/ \E v \in ConfigWpmArgs : SetWpm(v)
  \/ \E fmt \in ConfigFormats, r \in ConfigRates : SetCaps(fmt, r)

SpecConfig == InitConfig /\ [][NextConfig]_vars

(***************************************************************************)
(* The engine with its cursor followed: phase and timestamps, at the       *)
(* default wpm, with text swaps and renegotiations at any moment           *)
(***************************************************************************)

InitCursor ==
  /\ InitEngine
  /\ observed = {"phase", "time"}
  /\ cs_text = << >>
  /\ cs_out = << >>
  /\ cs_done = FALSE
  /\ NoBurst

NextCursor ==
  \/ SetTextLock(TextSOS)
  \/ SetTextStore
  \/ \E r \in CursorRates : SetCaps("S16", r)
  \/ Start
  \/ CreateBegin
  \/ CreateUpdate
  \/ CreateBody

SpecCursor == InitCursor /\ [][NextCursor]_vars

(***************************************************************************)
(* "SOS" end to end: the default wpm of 20, one_shot off, 8000 Hz          *)
(***************************************************************************)

SosRates == {8000}

NextSos ==
  \/ SetTextLock(TextSOS)
  \/ SetTextStore
  \/ \E r \in SosRates : SetCaps("S16", r)
  \/ Start
  \/ Stop
  \/ CreateBegin
  \/ CreateUpdate
  \/ CreateBody

SpecSos == InitCursor /\ [][NextSos]_vars

(***************************************************************************)
(* The engine with its call results followed: text requests, empty ones    *)
(* among them, and the timing at a slow wpm and a high rate                *)
(***************************************************************************)

InitSwap ==
  /\ InitEngine
  /\ observed = {"calls"}
  /\ cs_text = << >>
  /\ cs_out = << >>
  /\ cs_done = FALSE
  /\ NoBurst

NextSwap ==
  \/ \E v \in SwapWpmArgs : SetWpm(v)
  \/ \E b \in BOOLEAN : SetOneShot(b)
  \/ \E t \in SwapTextArgs : SetTextLock(t)
  \/ SetTextStore
  \/ \E r \in SwapRates : SetCaps("S16", r)
  \/ IdleStateChange
  \/ CreateBegin
  \/ CreateUpdate
  \/ CreateBody

SpecSwap == InitSwap /\ [][NextSwap]_vars

(***************************************************************************)
(* The timing under a racing set_property(wpm): create load by load        *)
(***************************************************************************)

TornWpmArgs == {6, 20}
TornRates == {44100}

NextTorn ==
  \/ \E v \in TornWpmArgs : SetWpm(v)
  \/ \E b \in BOOLEAN : SetOneShot(b)
  \/ \E r \in TornRates : SetCaps("S16", r)
  \/ Start
  \/ CreateBegin
  \/ CreateEnd
  \/ CreateReadDot
  \/ CreateReadDash
  \/ CreateReadSpace
  \/ CreateFill

SpecTorn == Init /\ [][NextTorn]_vars

(***************************************************************************)
(* The lock under text requests: update_text step by step                  *)
(***************************************************************************)

LockTextArgs == { << 65 >>, TextSOS }
LockRates == {8000}

NextLock ==
  \/ \E t \in LockTextArgs : SetTextLock(t)
  \/ SetTextStore
  \/ \E r \in LockRates : SetCaps("S16", r)
  \/ Start
  \/ CreateBegin
  \/ UpdateTextLock
  \/ UpdateTextSwap
  \/ UpdateTextSend
  \/ UpdateTextReset
  \/ CreateSettle
  \/ CreateBody

SpecLock == Init /\ [][NextLock]_vars

(***************************************************************************)
(* Rendering to the end: one text request at most, the streaming thread    *)
(* calling create for as long as it can, the main loop running its idle    *)
(* callbacks                                                               *)
(***************************************************************************)

DrainTextArgs == { TextSOS }
DrainRates == {8000, 384000}

InitDrain ==
  /\ InitEngine
  /\ observed = {"time"}
  /\ cs_text = << >>
  /\ cs_out = << >>
  /\ cs_done = FALSE
  /\ NoBurst

\* The application requests a text if it has not requested one before.
SetTextLockOnce(t) ==
  /\ last_requested = NULLTEXT
  /\ SetTextLock(t)

NextDrain ==
  \/ \E b \in BOOLEAN : SetOneShot(b)
  \/ \E t \in DrainTextArgs : SetTextLockOnce(t)
  \/ SetTextStore
  \/ \E r \in DrainRates : SetCaps("S16", r)
  \/ Start
  \/ IdleStateChange
  \/ CreateBegin
  \/ CreateUpdate
  \/ CreateBody

\* create returns from lines 603-704: the step CreateBody takes, told by
\* the place of the streaming thread alone.
CreateBodyReturns ==
  /\ Running
  /\ r_pc = "body"
  /\ r_pc' = "idle"

\* The task of the source pad calls create again as soon as a call has
\* returned and every call runs to its return, the main loop dispatches
\* every idle source it holds, and the application thread that has taken
\* the lock in set_property goes on to its unlock.  (A step of NextDrain
\* that takes the streaming thread from "body" to "idle" is a CreateBody
\* step.)
SpecDrain ==
  /\ InitDrain
  /\ [][NextDrain]_vars
  /\ WF_vars(SetTextStore)
  /\ WF_vars(CreateBegin)
  /\ WF_vars(CreateUpdate)
  /\ WF_r_pc(CreateBodyReturns)
  /\ WF_vars(IdleStateChange)

(***************************************************************************)
(* The generator on its own: one burst, sample by sample                   *)
(***************************************************************************)

\* Rates with a fade of 0, 0, 2, 4 and 160 samples.
BurstRates == {20, 40, 100, 200, 8000}

InitGenerator ==
  /\ InitEngine
  /\ observed = { }
  /\ cs_text = << >>
  /\ cs_out = << >>
  /\ cs_done = FALSE
  /\ cw_rate \in BurstRates
  /\ cw_frequency = DEFAULT_FREQUENCY
  /\ cw_samples \in 1 .. MaxBurst
  /\ cw_i = 0
  /\ cw_envelope = << 1, 1 >>
  /\ cw_phase = 0

\* One pass of the for loop of CW_GENERATOR: the envelope of sample i and
\* the phase after it.
CwSample ==
  /\ cw_i < cw_samples
  /\ cw_envelope' = Envelope(cw_i, cw_samples,
                             FadeSamples(cw_rate, cw_samples))
  /\ cw_phase' = CwStep(cw_phase, cw_frequency, cw_rate)
  /\ cw_i' = cw_i + 1
  /\ UNCHANGED << cw_rate, cw_frequency, cw_samples, engineVars,
                  compilerVars >>

NextGenerator == CwSample

SpecGenerator == InitGenerator /\ [][NextGenerator]_vars

(***************************************************************************)
(* The oscillator at rates below the tone: the pad template takes any rate *)
(* from 1 up, the frequency goes up to MAX_FREQUENCY                       *)
(***************************************************************************)

AliasRates == {800, 1500, 8000}
AliasFrequencyArgs == {2000}

NextAlias ==
  \/ \E f \in AliasFrequencyArgs : SetFrequency(f)
  \/ \E r \in AliasRates : SetCaps("S16", r)
  \/ Start
  \/ CreateBegin
  \/ CreateBody

SpecAlias == InitCursor /\ [][NextAlias]_vars


(***************************************************************************)
(* Properties of the compiler (checked under SpecCompile)                  *)
(***************************************************************************)

RECURSIVE Pow2(_)
Pow2(k) == IF k = 0 THEN 1 ELSE 2 * Pow2(k - 1)

\* Number of symbols of a table entry: the stored count, 0 standing for 8.
EntryCount(entry) ==
  LET stored == (entry \div 64) % 8 IN IF stored = 0 THEN 8 ELSE stored

\* Symbol k (from 0) of a table entry: bit k of its low six bits.
EntrySymbol(entry, k) ==
  IF ((entry % 64) \div Pow2(k)) % 2 = 1 THEN Dash ELSE Dot

\* The units one character stands for: two gaps for a space, otherwise
\* gap, symbol, gap, symbol, ..., and one closing gap.
CharUnits(ch) ==
  IF ch = SPACE
    THEN << Gap, Gap >>
    ELSE LET entry == morse_table[(toupper(ch) % 128) + 1]
         IN [ j \in 1..(2 * EntryCount(entry) + 1) |->
                IF j % 2 = 1 THEN Gap ELSE EntrySymbol(entry, (j \div 2) - 1) ]

RECURSIVE PlanOf(_)
PlanOf(t) ==
  IF t = << >>
    THEN << Gap, Gap, Gap >>
    ELSE CharUnits(Head(t)) \o PlanOf(Tail(t))

\* C1: the compiled plan of every text is, character by character, two
\* gaps for a space and otherwise one gap before each symbol of the table
\* entry (bit 0 first, 0 a dot, 1 a dash; a stored count of 0 stands for 8
\* symbols) plus one closing gap, followed by three trailing gaps;
\* "A" gives gap dot gap dash and four gaps, " " gives five gaps.
C1_CompileIsPerCharacter ==
  cs_done =>
    /\ cs_out = PlanOf(cs_text)
    /\ (cs_text = << 65 >> =>
          cs_out = << Gap, Dot, Gap, Dash, Gap, Gap, Gap, Gap >>)
    /\ (cs_text = << SPACE >> => cs_out = << Gap, Gap, Gap, Gap, Gap >>)

\* A letter between a space and a lower-case letter has been compiled.
C1_Witness ==
  /\ cs_done
  /\ cs_text = << SPACE, 65, 101 >>
  /\ cs_out = << Gap, Gap, Gap, Dot, Gap, Dash, Gap, Gap, Dot, Gap,
                 Gap, Gap, Gap >>

\* A character other than the space whose table entry is 0.
Unmapped(ch) == ch # SPACE /\ morse_table[(toupper(ch) % 128) + 1] = 0

UnmappedCount(t) == Cardinality({ j \in 1..Len(t) : Unmapped(t[j]) })
StripUnmapped(t) == SelectSeq(t, LAMBDA ch : ~Unmapped(ch))
CountOf(unit, plan) == Cardinality({ j \in 1..Len(plan) : plan[j] = unit })

\* C2 as stated: a character without a table entry adds no unit, so the
\* plan of a text equals the plan of the text without those characters.
C2_UnmappedContributeNothing ==
  cs_done => cs_out = PlanOf(StripUnmapped(cs_text))

\* C2, amended: every character whose table entry is 0 is sent as eight
\* dots, each preceded by a gap, and a closing gap (17 units); the plan
\* has 8 dots and 9 gaps per such character more than the plan of the
\* text without them, and the same dashes.
C2_UnmappedSendEightDots ==
  cs_done =>
    LET stripped == PlanOf(StripUnmapped(cs_text))
        k == UnmappedCount(cs_text)
    IN /\ Len(cs_out) = Len(stripped) + 17 * k
       /\ CountOf(Dot, cs_out) = CountOf(Dot, stripped) + 8 * k
       /\ CountOf(Gap, cs_out) = CountOf(Gap, stripped) + 9 * k
       /\ CountOf(Dash, cs_out) = CountOf(Dash, stripped)
       /\ (cs_text = << 35 >> =>
             cs_out = << Gap, Dot, Gap, Dot, Gap, Dot, Gap, Dot,
                         Gap, Dot, Gap, Dot, Gap, Dot, Gap, Dot, Gap,
                         Gap, Gap, Gap >>)

\* A text with '#' in it has been compiled.
C2_Witness ==
  /\ cs_done
  /\ cs_text = << 65, 35 >>
  /\ Len(cs_out) = 25


(***************************************************************************)
(* Properties of the engine (checked under Spec)                           *)
(***************************************************************************)

PlanExists == generated_morse # NULLMORSE
Exhausted == PlanExists /\ position >= Len(generated_morse)

\* create() runs its end-of-plan test or its fill loop and returns.
BodyStep == r_pc = "body" /\ r_pc' = "idle"
\* create() applies the pending text and returns.
UpdateStep == r_pc = "update" /\ r_pc' = "idle"
\* set_property(text) stores its text and unlocks.
StoreStep == c_pc = "locked" /\ c_pc' = "idle"

\* C3: in one-shot mode the call that finds the plan exhausted and its
\* completion not yet signalled returns FLUSHING (not EOS) and posts
\* "playback complete"; calls that find the completion flag set post
\* nothing; at most one such message is posted per plan as long as no new
\* text has been requested; the flag is never set on an unfinished plan.
C3_OneShotCompletesOnce ==
  [][ /\ (BodyStep /\ one_shot /\ Exhausted /\ ~playback_complete) =>
           /\ ret' = "FLUSHING"
           /\ playback_complete'
           /\ complete_count' = complete_count + 1
      /\ (BodyStep /\ playback_complete) =>
           /\ ret' = "EOS"
           /\ complete_count' = complete_count
      /\ ~new_text_pending' => complete_count' <= 1
      /\ (PlanExists' /\ position' < Len(generated_morse')) =>
           ~playback_complete'
    ]_vars

\* After the completion of a one-shot plan a further call has returned
\* EOS without a second message.
C3_Witness ==
  /\ one_shot /\ Exhausted /\ playback_complete
  /\ complete_count = 1
  /\ ret = "EOS"
  /\ r_pc = "idle"

\* C4: with one_shot off, a call that finds the plan exhausted returns EOS,
\* posts nothing and schedules nothing; applying a pending text clears the
\* about-to-finish and completion flags and sets the position to 0, and
\* calls on the fresh plan return data again.
C4_DrainedUntilNewText ==
  [][ /\ (BodyStep /\ ~one_shot /\ Exhausted) =>
           /\ ret' = "EOS"
           /\ complete_count' = complete_count
           /\ idle_queue' = idle_queue
           /\ playback_complete' = playback_complete
           /\ position' = position
      /\ UpdateStep =>
           /\ position' = 0
           /\ ~about_to_finish_posted'
           /\ ~playback_complete'
           /\ ret' = "OK"
      /\ (BodyStep /\ PlanExists /\ position = 0) =>
           /\ ret' = "OK"
           /\ out_samples' > 0
           /\ position' > 0
    ]_vars

\* A drained plan has been replaced and the new plan has produced data.
C4_Witness ==
  /\ ~one_shot
  /\ text = << 65 >>
  /\ last_requested = << 65 >>
  /\ PlanExists /\ position > 0
  /\ ret = "OK"
  /\ out_tone > 0

\* C5: for the active plan the about-to-finish message has been posted
\* exactly when the position left by a fill is beyond 90% of the plan
\* (10 * position > 9 * length), and then exactly once.
C5_AboutToFinishOnce ==
  PlanExists =>
    /\ about_to_finish_posted <=> (10 * position > 9 * Len(generated_morse))
    /\ atf_count = (IF about_to_finish_posted THEN 1 ELSE 0)

\* The message was posted by a fill that stopped short of the plan's end.
C5_Witness ==
  /\ PlanExists
  /\ about_to_finish_posted
  /\ atf_count = 1
  /\ position < Len(generated_morse)
  /\ ret = "OK"

\* C6: a request stores its non-empty text in the slot and marks it
\* pending; the call that finds the slot pending makes that text the
\* active text and empties the slot; the active text changes only by
\* consuming a pending slot; whenever no text is pending the active text
\* is the latest requested one.
C6_PendingSlotProtocol ==
  [][ /\ StoreStep =>
           /\ c_arg # << >>
           /\ pending_text' = c_arg
           /\ new_text_pending'
      /\ UpdateStep =>
           /\ new_text_pending
           /\ text' = pending_text
           /\ pending_text' = NULLTEXT
           /\ ~new_text_pending'
      /\ text' # text => UpdateStep
      /\ new_text_pending' <=> pending_text' # NULLTEXT
      /\ (~new_text_pending' /\ last_requested' # NULLTEXT) =>
           text' = last_requested'
    ]_vars

\* The second of two different requests has been applied.
C6_Witness ==
  /\ text = << 101, 35 >>
  /\ last_requested = << 101, 35 >>
  /\ ~new_text_pending
  /\ pending_text = NULLTEXT
  /\ c_pc = "idle"
  /\ r_pc = "idle"
  /\ position = 0

\* C7: the call that applies a pending text returns one buffer of exactly
\* samples_per_dot samples, none of them tone, and leaves the position
\* at 0.
C7_SettleBuffer ==
  [][ UpdateStep =>
        /\ ret' = "OK"
        /\ out_samples' = samples_per_dot
        /\ out_samples' >= MinDotSamples
        /\ out_tone' = 0
        /\ position' = 0
        /\ text' = pending_text
    ]_vars

\* The settle buffer of a newly applied text has just been returned at
\* the slowest speed.
C7_Witness ==
  /\ r_pc = "idle"
  /\ ret = "OK"
  /\ position = 0
  /\ PlanExists
  /\ text = << 65 >>
  /\ out_tone = 0
  /\ out_samples = 10584
  /\ samples_per_dot = 10584

\* C8 as stated: no state has the streaming thread at its unlocked
\* accesses of the shared fields (create, lines 603-704: generated_morse,
\* position, playback_complete, about_to_finish_posted) while the
\* application thread holds the lock to write them.
C8_SharedStateOnlyUnderLock ==
  ~(r_pc = "body" /\ c_pc = "locked" /\ lock = "control")

\* round(1.2 / wpm * rate), halves rounded up.
RoundedDot(w, r) == (12 * r + 5 * w) \div (10 * w)

\* C9: once a rate is known, and after any sequence of wpm changes and
\* negotiations, samples_per_dot is max(100, round(1.2 / wpm * rate)) for
\* the current wpm and rate.
C9_DotIsRounded ==
  rate > 0 =>
    samples_per_dot =
      (IF RoundedDot(wpm, rate) < 100 THEN 100 ELSE RoundedDot(wpm, rate))

\* The double product 1.2 / wpm * rate cut to an integer: the floor of the
\* exact value, one less where the exact value is an integer the double
\* product falls just short of.
TruncatedDot(w, r) ==
  LET q == (6 * r) \div (5 * w)
  IN IF (6 * r) % (5 * w) = 0 /\ << w, r >> \in DoubleShortfall
       THEN q - 1
       ELSE q

\* What the code keeps instead: samples_per_dot follows the current wpm
\* and rate, but as the truncated product, floored at 100.
DotFollowsWpmAndRate ==
  rate > 0 =>
    /\ wpm >= MIN_WPM /\ wpm <= MAX_WPM
    /\ samples_per_dot =
         (IF TruncatedDot(wpm, rate) < 100 THEN 100
                                           ELSE TruncatedDot(wpm, rate))

\* C10: once the timing has been computed, a dash is three dots, a gap is
\* one dot and a dot has at least 100 samples.
C10_TimingConsistent ==
  rate > 0 =>
    /\ samples_per_dash = 3 * samples_per_dot
    /\ samples_per_space = samples_per_dot
    /\ samples_per_dot >= 100

\* At 20 wpm and 1000 Hz the product is 60 and the floor applies.
C10_Witness ==
  /\ rate = 1000
  /\ wpm = 20
  /\ samples_per_dot = 100
  /\ samples_per_dash = 300
  /\ samples_per_space = 100


(***************************************************************************)
(* Properties of the configuration (checked under SpecConfig)              *)
(***************************************************************************)

\* The stored frequency, volume and wpm are inside their ranges.
ConfigInRange ==
  /\ MIN_FREQUENCY <= frequency /\ frequency <= MAX_FREQUENCY
  /\ MIN_VOLUME <= volume /\ volume <= MAX_VOLUME
  /\ MIN_WPM <= wpm /\ wpm <= MAX_WPM

\* The value the claim expects a request x to store in a range lo..hi.
NearestInRange(x, lo, hi) == IF x < lo THEN lo ELSE IF x > hi THEN hi ELSE x

\* A set_property call of the three numeric properties stores the request
\* itself or the bound nearest to it, and ends normally.
StoresNearest ==
  /\ \A f \in FrequencyArgs :
       SetFrequency(f) =>
         /\ frequency' = NearestInRange(f, 400, 2000)
         /\ prop_result' \in {"stored", "clamped"}
  /\ \A v \in VolumeArgs :
       SetVolume(v) =>
         /\ volume' = NearestInRange(v, 0, 100)
         /\ prop_result' \in {"stored", "clamped"}
  /\ \A v \in ConfigWpmArgs :
       SetWpm(v) =>
         /\ wpm' = NearestInRange(v, 5, 30)
         /\ prop_result' \in {"stored", "clamped"}

\* C11: after any sequence of set_property calls for frequency, volume
\* and wpm the stored values satisfy 400 <= frequency <= 2000,
\* 0.0 <= volume <= 1.0 and 5 <= wpm <= 30; a request outside a range is
\* stored as the nearest bound, and the call never fails.
C11_ConfigurationClamped == [](ConfigInRange) /\ [][StoresNearest]_vars

\* set_frequency(5000), set_wpm(1) and set_volume(-1) have all been made:
\* the stored values are 2000, 5 and 0.0.
C11_Witness ==
  /\ frequency = 2000
  /\ wpm = 5
  /\ volume = 0
  /\ prop_result = "clamped"

\* A setcaps call that selected no generator reported failure.
NoGeneratorIsFailure == cwfunc = "NULL" => caps_ret \in {"none", "FALSE"}

\* A setcaps call with unparsable caps changes nothing of the format.
InvalidCapsChangeNothing ==
  (\E r \in ConfigRates : SetCaps("invalid", r)) =>
     /\ caps_ret' = "FALSE"
     /\ UNCHANGED << rate, cwfunc, packfunc, phase, phase_increment,
                     samples_per_dot, samples_per_dash, samples_per_space >>

EmptyRequestIsNoOp ==
  SetTextLock(<< >>) =>
    UNCHANGED << text, generated_morse, position, phase, timestamp,
                 pending_text, new_text_pending, about_to_finish_posted,
                 playback_complete, lock >>

\* No empty text is on its way into the pending slot or in it.
NoEmptyTextPending ==
  /\ pending_text # << >>
  /\ c_pc = "locked" => c_arg # << >>

\* C12: set_property(text) with an empty string is a no-op: the active
\* text, the plan, the cursor, the pending slot, the pending flag and the
\* completion flags are unchanged, and a text that was pending is still
\* pending.
C12_EmptyTextIgnored == [](NoEmptyTextPending) /\ [][EmptyRequestIsNoOp]_vars

\* The last set_property call was an empty text request that was ignored
\* while "A" waits in the pending slot and the plan is partly rendered.
C12_Witness ==
  /\ prop_result = "ignored"
  /\ c_pc = "idle"
  /\ new_text_pending
  /\ pending_text = << 65 >>
  /\ PlanExists
  /\ position > 0

\* C15 as stated: every buffer create() returns, the settle buffer after
\* a text swap included, holds at most max_samples samples at every rate
\* and every wpm in 5..30.  (The fill offset only grows during the fill
\* loop, so a final offset within the cap means the offset was within it
\* all along.)
C15_EveryBufferWithinCap ==
  (r_pc = "idle" /\ ret = "OK") => out_samples <= max_samples

\* A buffer filled by the fill loop holds at most max_samples samples.
FillWithinCap == (BodyStep /\ ret' = "OK") => out_samples' <= max_samples

\* The settle buffer holds samples_per_dot samples, whatever the cap.
SettleIsOneDot == (UpdateStep /\ ret' = "OK") => out_samples' = samples_per_dot

\* C15 amended: every buffer the fill loop fills holds at most max_samples
\* samples; the settle buffer holds samples_per_dot samples, which is more
\* than max_samples when the dot is longer than the cap.
C15_FillBuffersWithinCap == [][FillWithinCap /\ SettleIsOneDot]_vars

\* At 384000 Hz and wpm 5 a dot has 92160 samples: the fill loop has
\* returned a tone buffer cut at the cap.
C15_Witness ==
  /\ r_pc = "idle"
  /\ ret = "OK"
  /\ samples_per_dot > max_samples
  /\ out_samples = max_samples
  /\ out_tone = max_samples


(***************************************************************************)
(* Properties of the cursor (checked under SpecCursor and SpecSos)         *)
(***************************************************************************)

\* create() returns a buffer.
DataStep == (BodyStep \/ UpdateStep) /\ ret' = "OK"

\* start() compiles the plan anew.
StartStep == ~started /\ started'

\* The buffer a call returns is stamped with the durations of the buffers
\* returned before it for the same plan (none after a text swap), lasts
\* as long as its samples, and moves the clock on by that duration.
StampedWithPlanTime ==
  DataStep =>
    /\ BodyStep => out_pts' = plan_duration
    /\ UpdateStep => out_pts' = ZeroTime
    /\ out_duration' = SamplesToTime(out_samples', rate)
    /\ plan_duration' = TimeAdd(out_pts', out_duration')
    /\ timestamp' = plan_duration'

\* The clock is the total duration of the buffers returned for the plan.
ClockIsPlanTime == timestamp = plan_duration

\* C13: within one plan every buffer is stamped with the sum of the
\* durations of the buffers returned before it for that plan (0 for the
\* first), and the timestamp advances by exactly the duration of the
\* buffer returned, so the buffers are contiguous and their timestamps
\* never decrease until the plan is replaced or the source restarted.
C13_TimestampsContiguous ==
  [](ClockIsPlanTime) /\ [][StampedWithPlanTime]_vars

\* A plan is partly rendered and its latest buffer, not its first, carries
\* a timestamp above zero.
C13_Witness ==
  /\ r_pc = "idle"
  /\ ret = "OK"
  /\ PlanExists
  /\ 0 < position /\ position < Len(generated_morse)
  /\ out_pts # ZeroTime
  /\ plan_samples > out_samples

\* The plan of "SOS" has been rendered to its end and create() has
\* returned EOS.
SosFinished ==
  /\ text = TextSOS
  /\ PlanExists
  /\ position = Len(generated_morse)
  /\ r_pc = "idle"
  /\ ret = "EOS"

\* C14 as stated: for "SOS" at wpm 20, 8000 Hz, one_shot off, the plan has
\* 24 units, the calls end with EOS, and the samples of all the buffers
\* returned add up to 15 gaps and 6 dots of 480 samples and 3 dashes of
\* 1440 samples, 14400 samples, within one sample.
C14_SosTotalIsNominal ==
  SosFinished =>
    /\ Len(generated_morse) = 24
    /\ plan_samples >= (15 * 480 + 6 * 480 + 3 * 1440) - 1
    /\ plan_samples <= (15 * 480 + 6 * 480 + 3 * 1440) + 1

\* The samples returned for "SOS": nothing or the settle buffer of one dot
\* before the first unit, the 14400 samples of the units at the end, with
\* the settle buffer in front of them when the text came by a swap.
SosSamples ==
  /\ (text = TextSOS /\ PlanExists /\ position = 0) =>
       plan_samples \in {0, 480}
  /\ SosFinished =>
       /\ Len(generated_morse) = 24
       /\ plan_samples \in {14400, 480 + 14400}
       /\ plan_duration \in { << 1, 800000000 >>, << 1, 860000000 >> }

\* The call that finds the plan rendered to its end returns EOS.
EndsWithEos == (BodyStep /\ Exhausted) => ret' = "EOS"

\* C14 amended: the buffers add up to the 14400 samples of the units, plus
\* the 480 samples of the settle buffer when the text was applied by a
\* swap; the calls end with EOS.
C14_SosTotalWithSettle == [](SosSamples) /\ [][EndsWithEos]_vars

\* "SOS" was set as a pending text, applied, and rendered to the end:
\* 14880 samples in 1.86 s.
C14_Witness ==
  /\ SosFinished
  /\ plan_samples = 14880
  /\ timestamp = << 1, 860000000 >>

\* C18: the step that applies a pending text resets the whole cursor:
\* position 0, phase 0 and timestamp 0 right after the replacement (the
\* settle buffer of that call is stamped with it).
C18_SwapResetsCursor ==
  [][UpdateStep => (position' = 0 /\ phase' = 0 /\ out_pts' = ZeroTime)]_vars

\* Some units of the plan are rendered and some are left.
PartlyRendered ==
  PlanExists /\ 0 < position /\ position < Len(generated_morse)

\* C20: the phase is never reset mid-plan: while a plan is partly rendered
\* only the rendering of dots and dashes changes the phase; property
\* writes and a renegotiation of the format leave it as it is.
C20_PhaseOnlyMovedByTones ==
  [][(PartlyRendered /\ phase' # phase) =>
       (BodyStep /\ out_tone' > 0) \/ UpdateStep \/ StartStep]_vars


(***************************************************************************)
(* Properties of stop and of the fill loop (checked under Spec)            *)
(***************************************************************************)

\* The source is stopped and holds no plan: the state between stop() and
\* the next start() or text swap, and the state before the first start().
StoppedIdle == ~started /\ ~PlanExists

\* A stopped source has its cursor back at the start.
StoppedCursorReset ==
  StoppedIdle => (position = 0 /\ timestamp = ZeroTime)

\* A create() on a stopped source returns no buffer and posts nothing.
\* (A position above 0 tells a source that was stopped from one that was
\* never started.)
StoppedIsSilent ==
  (BodyStep /\ StoppedIdle /\ position > 0) =>
     /\ ret' # "OK"
     /\ UNCHANGED << atf_count, complete_count, idle_queue >>

\* C16: stop() discards the plan and the cursor (position and timestamp
\* back to their initial values); from then until the next start() or
\* text swap create() returns no buffer and posts no message.
C16_StopDiscardsCursor ==
  [](StoppedCursorReset) /\ [][StoppedIsSilent]_vars

\* Samples of a unit as the plan's timing defines them: a dot and a gap
\* last one dot, a dash three.
UnitSamples(symbol, spd) == IF symbol = Dash THEN 3 * spd ELSE spd

\* Nominal samples of the units from + 1 .. to of a plan.
RECURSIVE SumUnits(_, _, _, _)
SumUnits(plan, from, to, spd) ==
  IF from >= to
    THEN 0
    ELSE UnitSamples(plan[from + 1], spd) + SumUnits(plan, from + 1, to, spd)

\* A fill call takes at least one unit, takes every unit but its last in
\* full, and returns no more than the units it took are worth; what it
\* cut off the last unit is never made up for, the next call starting
\* with the unit after it.
FillAdvances ==
  (BodyStep /\ ret' = "OK") =>
     /\ position' > position
     /\ position' <= Len(generated_morse)
     /\ out_samples' <= SumUnits(generated_morse, position, position',
                                 samples_per_dot)
     /\ out_samples' >= SumUnits(generated_morse, position, position' - 1,
                                 samples_per_dot)
     /\ out_samples' > 0

\* C19: every fill call that returns a buffer advances the position by at
\* least one unit, each unit is rendered in exactly one call, and the tail
\* of a unit cut short by the room left in the buffer is dropped, so a
\* plan never yields more samples than its units' nominal durations.
C19_CursorAlwaysAdvances == [][FillAdvances]_vars

\* "OK" at 44100 Hz and wpm 5: the second buffer holds a dash, a gap and
\* one third of the next dash, and the position is past that dash.
C19_Witness ==
  /\ r_pc = "idle"
  /\ ret = "OK"
  /\ text = TextOK
  /\ samples_per_dot = 10584
  /\ PlanExists
  /\ position = 6
  /\ generated_morse[position] = Dash
  /\ out_samples = max_samples
  /\ out_tone = 4 * samples_per_dot


(***************************************************************************)
(* Properties of the oscillator (checked under SpecCursor and SpecAlias)   *)
(***************************************************************************)

\* Nominal samples of the gaps among the units from + 1 .. to of a plan.
RECURSIVE SumGaps(_, _, _, _)
SumGaps(plan, from, to, spd) ==
  IF from >= to
    THEN 0
    ELSE (IF plan[from + 1] = Gap THEN spd ELSE 0)
           + SumGaps(plan, from + 1, to, spd)

\* Samples of dots and dashes in a buffer of total samples that took the
\* units from + 1 .. to: only the last unit can have been cut short.
ToneSamples(plan, from, to, spd, total) ==
  IF plan[to] = Gap
    THEN SumUnits(plan, from, to, spd) - SumGaps(plan, from, to, spd)
    ELSE total - SumGaps(plan, from, to, spd)

\* A fill call moves the phase by one increment for each sample of a dot
\* or a dash it wrote and by nothing for the samples of its gaps, counted
\* modulo a full turn.
TonesAdvancePhase ==
  (BodyStep /\ ret' = "OK") =>
     (phase' - phase
        - ToneSamples(generated_morse, position, position',
                      samples_per_dot, out_samples') * phase_increment)
       % rate = 0

\* Between two fill calls of a plan, at an unchanged rate, the phase stays
\* as the earlier call left it.
PhaseKeptBetweenCalls ==
  (PartlyRendered /\ ~BodyStep /\ rate' = rate) => phase' = phase

\* C21: rendering a gap leaves the phase unchanged, a tone unit of n
\* samples advances it by n increments modulo a full turn, and a tone
\* unit starts at the phase the previous tone unit of the plan ended at,
\* also when the two are rendered by different calls of create.
C21_PhaseContinuousAcrossUnits ==
  [][TonesAdvancePhase /\ PhaseKeptBetweenCalls]_vars

\* C22: the phase lies in [0, 2*pi) after every rendered sample, that is
\* in [0, rate) in units of 2*pi/rate, for every frequency of the range
\* and every rate the pad template allows.
C22_PhaseWithinTurn ==
  rate > 0 => (0 <= phase /\ phase < rate)


(***************************************************************************)
(* Properties of the generator (checked under SpecGenerator)               *)
(***************************************************************************)

\* 0.020 * rate rounded to the nearest integer.
RoundedFade(r) == ((r * 20) + 500) \div 1000

\* 0.020 * rate cut to its integer part.
TruncatedFade(r) == r \div 50

\* No sample of the burst is both fading in and fading out.
FadesApart ==
  \A i \in 0 .. (cw_samples - 1) :
     ~(/\ i < FadeSamples(cw_rate, cw_samples)
       /\ i > cw_samples - FadeSamples(cw_rate, cw_samples))

\* The envelope computed last was divided by a positive fade length and
\* lies in [0, 1].
EnvelopeInUnit ==
  /\ cw_envelope[2] > 0
  /\ 0 <= cw_envelope[1]
  /\ cw_envelope[1] <= cw_envelope[2]

\* The phase after i samples, stepped sample by sample, is the phase the
\* engine computes for a run of i samples at once.
PhaseAsStepped ==
  cw_phase = CwPhase(0, cw_frequency, cw_rate, cw_i)

\* C23 as stated: fade_samples = min(round(0.020 * rate), n / 2), the two
\* fade regions never overlap, every envelope lies in [0, 1], and nothing
\* is divided by a fade length of 0.
C23_FadeRoundedEnvelope ==
  /\ FadeSamples(cw_rate, cw_samples)
       = Min(RoundedFade(cw_rate), cw_samples \div 2)
  /\ FadesApart
  /\ EnvelopeInUnit

\* C23: fade_samples = min(0.020 * rate cut to its integer part, n / 2),
\* the two fade regions never overlap, every envelope lies in [0, 1], and
\* nothing is divided by a fade length of 0.
C23_FadeTruncatedEnvelope ==
  /\ FadeSamples(cw_rate, cw_samples)
       = Min(TruncatedFade(cw_rate), cw_samples \div 2)
  /\ FadesApart
  /\ EnvelopeInUnit

\* The last sample of a burst of 9 samples at 200 Hz: fade_samples is 4
\* and the sample fades out at 1/4.
C23_Witness ==
  /\ cw_rate = 200
  /\ cw_samples = 9
  /\ cw_i = 9
  /\ FadeSamples(cw_rate, cw_samples) = 4
  /\ cw_envelope = << 1, 4 >>


(***************************************************************************)
(* Properties of the timing read by create (checked under SpecTorn)        *)
(***************************************************************************)

\* C24: the dot, dash and gap durations one call of create renders with
\* come from one timing computation: dash = 3 * dot and gap = dot, however
\* set_property(wpm) and setcaps interleave with the call.
C24_TimingReadWhole ==
  r_pc = "fill" => (local_dash = 3 * local_dot /\ local_space = local_dot)


(***************************************************************************)
(* Properties of the lock (checked under SpecLock)                         *)
(***************************************************************************)

\* The streaming thread holds the lock before and after the step.
LockedStep == lock = "render" /\ lock' = "render"

\* A step of the streaming thread that writes samples.
RenderStep == out_samples' > 0 /\ r_pc # "idle" /\ r_pc' = "idle"

\* C25: the streaming thread takes the lock only to swap pointers and
\* flags: it writes no samples with the lock held, and no step it takes
\* with the lock held sends a character of the text to the plan, so a
\* text request never waits for longer than a swap.
C25_LockHeldOnlyToSwap ==
  [][/\ RenderStep => (lock # "render" /\ lock' # "render")
     /\ LockedStep => (/\ Len(str') >= Len(str)
                       /\ Len(generated_morse') <= Len(generated_morse))]_vars


(***************************************************************************)
(* Properties of the one-shot completion (checked under Spec)              *)
(***************************************************************************)

\* A step that schedules idle callbacks is the create that returns
\* FLUSHING: it schedules one callback with the one message it posts,
\* holds no lock, and leaves the element started.
QueuedByCreateOnly ==
  (idle_queue' > idle_queue) =>
     /\ BodyStep
     /\ ret' = "FLUSHING"
     /\ idle_queue' = idle_queue + 1
     /\ complete_count' = complete_count + 1
     /\ started' = started
     /\ lock' = lock

\* Every "playback complete" message comes with one scheduled callback.
OneRequestPerCompletion ==
  (complete_count' > complete_count) => idle_queue' = idle_queue + 1

\* The element is stopped by a step of its own, taken while no create is
\* running and the lock is free.
StoppedOutsideCreate ==
  (started /\ ~started') =>
     (r_pc = "idle" /\ r_pc' = "idle" /\ lock = "none")

\* C26: on one-shot completion create only schedules the change to READY,
\* one idle callback for each "playback complete" message; the change
\* itself runs later as a step of its own, never inside create and never
\* while the lock is held.
C26_StateChangeDeferred ==
  [][QueuedByCreateOnly /\ OneRequestPerCompletion
       /\ StoppedOutsideCreate]_vars

\* One-shot playback has completed: the callback is scheduled and has
\* not run yet, the element is still started.
C26_Witness ==
  /\ r_pc = "idle"
  /\ ret = "FLUSHING"
  /\ idle_queue = 1
  /\ complete_count = 1
  /\ started
  /\ lock = "none"


(***************************************************************************)
(* Properties of a repeated text request (checked under SpecCursor)        *)
(***************************************************************************)

\* A text swap installs the plan of the requested text with the cursor at
\* its start: position 0, the silent buffer stamped 0, both flags clear.
SwapStartsPlanAfresh ==
  (UpdateStep /\ UpdateApplies) =>
     /\ text' = pending_text
     /\ generated_morse' = PlanOf(pending_text)
     /\ position' = 0
     /\ out_pts' = ZeroTime
     /\ timestamp' = out_duration'
     /\ ~about_to_finish_posted'
     /\ ~playback_complete'

\* A swap to the text that is already active leaves the plan as it was.
SameTextSamePlan ==
  (UpdateStep /\ UpdateApplies /\ pending_text = text /\ PlanExists) =>
     generated_morse' = generated_morse

\* C27: replacing the active text with the same string again yields the
\* same plan and cursor position 0 after each replacement, and the later
\* replacement also restarts the timestamp at 0 and clears the
\* about-to-finish and completion flags.
C27_SameTextReplacedAlike ==
  [][SwapStartsPlanAfresh /\ SameTextSamePlan]_vars

\* "SOS" was requested, applied and rendered to its end, and requested
\* again: create is about to apply it for the second time, to a cursor at
\* position 24 with the about-to-finish flag set and the clock advanced.
C27_Witness ==
  /\ r_pc = "update"
  /\ UpdateApplies
  /\ pending_text = TextSOS
  /\ text = TextSOS
  /\ PlanExists
  /\ position = Len(generated_morse)
  /\ about_to_finish_posted
  /\ timestamp # ZeroTime


(***************************************************************************)
(* Properties of the end of a plan (checked under Spec)                    *)
(***************************************************************************)

\* A call of create returns.
ReturnStep == r_pc # "idle" /\ r_pc' = "idle"

\* A plan rendered to its last unit has had its about-to-finish message.
PostedByLastUnit ==
  (PlanExists /\ position >= Len(generated_morse)) =>
     (about_to_finish_posted /\ atf_count = 1)

\* A call that ends a plan, by EOS, by FLUSHING or by the "playback
\* complete" message, finds the about-to-finish message already posted.
EndSignalAfterPosted ==
  (/\ ReturnStep
   /\ PlanExists
   /\ ret' \in {"EOS", "FLUSHING"} \/ complete_count' > complete_count) =>
     (about_to_finish_posted /\ atf_count = 1)

\* C28: for every plan that is rendered "about to finish" is posted
\* before any end signal for that plan, at the latest by the call that
\* renders the plan's last unit.
C28_AboutToFinishBeforeEnd ==
  [](PostedByLastUnit) /\ [][EndSignalAfterPosted]_vars

\* "OK" was rendered to its end and the next call returned EOS; the
\* message had been posted once.
C28_Witness ==
  /\ r_pc = "idle"
  /\ ret = "EOS"
  /\ PlanExists
  /\ text = TextOK
  /\ position = Len(generated_morse)
  /\ atf_count = 1
  /\ complete_count = 0


(***************************************************************************)
(* Properties of the buffer size (checked under SpecSwap)                  *)
(***************************************************************************)

\* A fill call that leaves units of the plan for later returns a buffer
\* of exactly max_samples samples.
FullUnlessPlanEnds ==
  (BodyStep /\ ret' = "OK" /\ position' < Len(generated_morse)) =>
     out_samples' = max_samples

\* The buffer of a fill call holds the units it took and nothing else:
\* their nominal samples, or max_samples when the last of them was cut
\* short.  Samples added by the branch of lines 660-664 would come on top.
NothingMadeUpFor ==
  (BodyStep /\ ret' = "OK") =>
     out_samples' = Min(max_samples,
                        SumUnits(generated_morse, position, position',
                                 samples_per_dot))

UnitsLeft ==
  rate > 0 /\ PlanExists /\ position < Len(generated_morse)

\* The last call of create returned EOS or FLUSHING and left no unit
\* to render.
EndReturned ==
  /\ r_pc = "idle"
  /\ ret \in {"EOS", "FLUSHING"}
  /\ ~PlanExists \/ position >= Len(generated_morse)

\* A plan has yielded at most one settle buffer and one buffer per unit
\* rendered so far.
BuffersWithinUnits ==
  PlanExists => plan_buffers <= 1 + position

\* C30: once the format is negotiated and no further text is requested,
\* repeated calls of create return EOS or FLUSHING after finitely many
\* buffers: at most one settle buffer and one buffer per unit of the plan.
C30_RenderingTerminates ==
  [](BuffersWithinUnits) /\ (UnitsLeft ~> EndReturned)

\* "SOS" at 384000 Hz was rendered to its end in more than two buffers
\* and the call after the last one returned EOS.
C30_Witness ==
  /\ r_pc = "idle"
  /\ ret = "EOS"
  /\ PlanExists
  /\ text = TextSOS
  /\ position = Len(generated_morse)
  /\ plan_buffers > 2

====
